---- MODULE Spec2Model ----
(***************************************************************************)
(* Model of 23010599.py: the World Bank infographic script.                *)
(*                                                                         *)
(* A DataFrame is a record [index, columns, data]: index and columns are  *)
(* sequences of labels (labels may repeat, as pandas allows) and data is  *)
(* the positional matrix, data[i][j] being row i, column j.  A Series is  *)
(* a record [index, values].  Measurements are float64 values that are    *)
(* multiples of 1/8 (exactly representable, and so are their sums); the   *)
(* model stores the number of eighths.  Quotients are not exact: the      *)
(* float64 divisions and products of the percentage computation are       *)
(* carried out bit by bit, with their rounding.  An absent measurement    *)
(* (NaN) is the value NaN below.                                           *)
(***************************************************************************)
EXTENDS Integers, Sequences, FiniteSets, TLC

VARIABLES pc, tables, log, selection, legend, annotations, image, error,
          slice, percentages, stage

vars == <<pc, tables, log, selection, legend, annotations, image, error,
          slice, percentages, stage>>

\* ------------------------------------------------------------------ bounds

\* Cell values of the generated files are 0 .. ValMod-1 eighths.
ValMod == 4
\* Files of the input family differ by a seed in 0 .. MaxSeed.
MaxSeed == 0
\* Slices given to the percentage computation: length and value range.
MaxLen == 6
MaxVal == 2

\* ------------------------------------------------------- program constants

start_year == 1990
end_year == 2022

\* The absent measurement (NaN), outside the range of every measurement.
NaN == 0 - 1000000

\* all_cols_list[2..]: str(year) for year in range(start_year, end_year + 1)
YearLabels ==
    [i \in 1..(end_year - start_year + 1) |-> ToString(start_year + i - 1)]

\* Variant: the year range taken without its last year.
all_cols_list_exclusive_end ==
    <<"Country Name">> \o SubSeq(YearLabels, 1, Len(YearLabels) - 1)

all_cols_list == <<"Country Name">> \o YearLabels

pie_countries ==
    <<"Ireland", "Australia", "Singapore", "Afghanistan", "Angola",
      "South Africa", "Canada", "Bangladesh", "Algeria", "Somalia", "Nigeria">>

line_country_list == <<"Pakistan", "Germany", "South Africa", "Congo, Dem. Rep.">>

bar_country_list ==
    <<"South Africa", "Djibouti", "Eswatini", "Congo, Rep.", "Gabon",
      "Namibia", "Libya", "Botswana", "Somalia", "Sudan">>

bar2_country_list == <<"Arab World">>

\* The four datasets, in the order the script loads them.
Datasets == <<"P", "M", "C", "U">>

\* --------------------------------------------------------- generic helpers

Range(s) == {s[i] : i \in 1..Len(s)}

Abs(x) == IF x < 0 THEN 0 - x ELSE x

Sign(x) == IF x < 0 THEN 0 - 1 ELSE IF x > 0 THEN 1 ELSE 0

RECURSIVE Flatten(_)
Flatten(ss) == IF ss = <<>> THEN <<>> ELSE Head(ss) \o Flatten(Tail(ss))

\* The positions of label in labels, ascending.
RECURSIVE PositionsFrom(_, _, _)
PositionsFrom(labels, label, i) ==
    IF i > Len(labels) THEN <<>>
    ELSE (IF labels[i] = label THEN <<i>> ELSE <<>>)
         \o PositionsFrom(labels, label, i + 1)

Positions(labels, label) == PositionsFrom(labels, label, 1)

\* Rounding of the rational num/den (den > 0) to the nearest integer, ties to
\* the even one: what rint and the 'f' format do on an exactly represented
\* value.
RoundHalfEven(num, den) ==
    LET a == Abs(num)
        q == a \div den
        r == a % den
        m == IF 2 * r < den THEN q
             ELSE IF 2 * r > den THEN q + 1
             ELSE IF q % 2 = 0 THEN q ELSE q + 1
    IN  Sign(num) * m

\* ------------------------------------------------------------- DataFrames

EmptyFrame == [index |-> <<>>, columns |-> <<>>, data |-> <<>>]

EmptySeries == [index |-> <<>>, values |-> <<>>]

\* Variant of df.T that loses the last cell.
TransposeDropLast(df) ==
    [index |-> df.columns,
     columns |-> df.index,
     data |-> [j \in 1..Len(df.columns) |->
                 [i \in 1..Len(df.index) |->
                     IF i = Len(df.index) /\ j = Len(df.columns)
                     THEN NaN ELSE df.data[i][j]]]]

\* df.T
Transpose(df) ==
    [index |-> df.columns,
     columns |-> df.index,
     data |-> [j \in 1..Len(df.columns) |->
                 [i \in 1..Len(df.index) |-> df.data[i][j]]]]

\* The row positions df.loc[keys] selects: for each key in the caller's
\* order, every row carrying that label, in table order.
LocPositions(labels, keys) ==
    Flatten([k \in 1..Len(keys) |-> Positions(labels, keys[k])])

\* A list indexer raises KeyError when any of its labels is not in the axis.
MissingKeys(labels, keys) == \E k \in 1..Len(keys) : keys[k] \notin Range(labels)

\* df.loc[:, cols] with a list of column labels
LocColumns(df, cols) ==
    LET ps == LocPositions(df.columns, cols)
    IN  [index |-> df.index,
         columns |-> [k \in 1..Len(ps) |-> df.columns[ps[k]]],
         data |-> [i \in 1..Len(df.index) |->
                     [k \in 1..Len(ps) |-> df.data[i][ps[k]]]]]

\* df.loc[keys, col] with a list of row labels and one column label
LocRowsColumn(df, keys, col) ==
    LET ps == LocPositions(df.index, keys)
        j  == Positions(df.columns, col)[1]
    IN  [index |-> [k \in 1..Len(ps) |-> df.index[ps[k]]],
         values |-> [k \in 1..Len(ps) |-> df.data[ps[k]][j]]]

\* Variant: labels the axis lacks are skipped instead of raising.
LocListColumnSkipMissing(df, keys, col) ==
    [error |-> "", value |-> LocRowsColumn(df, keys, col)]

\* df.loc[keys, col] as the caller sees it: the Series, or the KeyError.
LocListColumn(df, keys, col) ==
    IF MissingKeys(df.index, keys)
    THEN [error |-> "KeyError", value |-> EmptySeries]
    ELSE [error |-> "", value |-> LocRowsColumn(df, keys, col)]

\* df.loc[keys, lo:hi] with a list of row labels and an inclusive label slice
LocRowsSlice(df, keys, lo, hi) ==
    LET ps == LocPositions(df.index, keys)
        a  == Positions(df.columns, lo)[1]
        b  == Positions(df.columns, hi)[1]
    IN  [index |-> [k \in 1..Len(ps) |-> df.index[ps[k]]],
         columns |-> SubSeq(df.columns, a, b),
         data |-> [k \in 1..Len(ps) |-> SubSeq(df.data[ps[k]], a, b)]]

\* ------------------------------------------------------------- input files

\* The entity names of the generated files, in file order.
BaseNames ==
    <<"Afghanistan", "Algeria", "Angola", "Arab World", "Australia",
      "Bangladesh", "Botswana", "Canada", "Congo, Dem. Rep.", "Congo, Rep.",
      "Djibouti", "Eswatini", "Gabon", "Germany", "Ireland", "Libya",
      "Namibia", "Nigeria", "Pakistan", "Singapore", "Somalia",
      "South Africa", "Sudan", "World">>

Reverse(s) == [i \in 1..Len(s) |-> s[Len(s) + 1 - i]]

Without(s, x) == SelectSeq(s, LAMBDA e : e # x)

\* The year columns of a World Bank file (a window of the real 1960..2023).
FileYears(kind) ==
    [i \in 1..(IF kind = "noyear" THEN 34 ELSE 36) |-> ToString(1987 + i)]

FileHeader(kind) ==
    <<(IF kind = "noname" THEN "Country" ELSE "Country Name"),
      "Country Code", "Indicator Name", "Indicator Code">> \o FileYears(kind)

\* The measurement of row number r in year y: absent before the row's first
\* reported year, which is 1990, 1991 or 1992.
Cell(r, y, seed) ==
    IF y - start_year < r % 3 THEN NaN
    ELSE (r + (y - start_year) + seed) % ValMod

FileRow(name, r, kind, seed) ==
    <<name, "ISO", "Indicator", "IND.CODE">>
    \o [i \in 1..Len(FileYears(kind)) |-> Cell(r, 1987 + i, seed)]

RowNumber(name) == Positions(BaseNames, name)[1]

\* The entity names of the rows of a file, in file order.  A "dup" file
\* carries a second row for v.name after its other rows.
FileNames(v) ==
    LET base == IF v.rev THEN Reverse(BaseNames) ELSE BaseNames
    IN  IF v.kind = "drop" THEN Without(base, v.name)
        ELSE IF v.kind = "dup" THEN Append(base, v.name)
        ELSE base

\* The file as text lines: 4 lines of preamble, the header, the data rows.
RawFile(v) ==
    [exists |-> v.kind # "missing",
     lines |->
        << <<"Data Source", "World Development Indicators">>, <<>>,
           <<"Last Updated Date", "2023-12-18">>, <<>>,
           FileHeader(v.kind) >>
        \o [i \in 1..Len(FileNames(v)) |->
              FileRow(FileNames(v)[i],
                      (IF i > Len(BaseNames) THEN i
                       ELSE RowNumber(FileNames(v)[i])),
                      v.kind, v.seed)]]

DropNames == {"South Africa", "Arab World"}

DupNames == {"South Africa"}

FileVariants ==
    {[kind |-> "ok", rev |-> rv, seed |-> sd, name |-> ""] :
        rv \in BOOLEAN, sd \in 0..MaxSeed}
    \cup {[kind |-> "drop", rev |-> FALSE, seed |-> 0, name |-> n] : n \in DropNames}
    \cup {[kind |-> "dup", rev |-> FALSE, seed |-> 0, name |-> n] : n \in DupNames}
    \cup {[kind |-> k, rev |-> FALSE, seed |-> 0, name |-> ""] :
            k \in {"noname", "noyear", "missing"}}

\* ----------------------------------------------------------------- loader

\* pd.read_csv(filename, skiprows=4): the first line kept is the header.
read_csv(file) ==
    LET body == SubSeq(file.lines, 6, Len(file.lines))
    IN  [index |-> [i \in 1..Len(body) |-> i - 1],
         columns |-> file.lines[5],
         data |-> body]

\* df.index = df["Country Name"]; df.drop("Country Name", axis=1, inplace=True)
SetIndexAndDrop(df) ==
    LET j    == Positions(df.columns, "Country Name")[1]
        keep == SelectSeq([k \in 1..Len(df.columns) |-> k], LAMBDA k : k # j)
    IN  [index |-> [i \in 1..Len(df.index) |-> df.data[i][j]],
         columns |-> [k \in 1..Len(keep) |-> df.columns[keep[k]]],
         data |-> [i \in 1..Len(df.index) |->
                     [k \in 1..Len(keep) |-> df.data[i][keep[k]]]]]

Raise(e) == [error |-> e, years |-> EmptyFrame, countries |-> EmptyFrame]

\* read_world_bank_data(filename).  The result of df.dropna(axis=1) is
\* discarded by the code, so no column is dropped for holding absent values.
read_world_bank_data(file) ==
    IF ~file.exists THEN Raise("FileNotFoundError")
    ELSE LET df == read_csv(file)
         IN  IF MissingKeys(df.columns, all_cols_list) THEN Raise("KeyError")
             ELSE LET out == SetIndexAndDrop(LocColumns(df, all_cols_list))
                  IN  [error |-> "", years |-> Transpose(out), countries |-> out]

\* ------------------------------------------------------------ view selector

\* Series.round(2) on a value of x eighths: x/8 * 100 is exact, rint rounds it
\* half to even, and the result is that many hundredths.  NaN stays NaN.
Round2(x) == IF x = NaN THEN NaN ELSE RoundHalfEven(25 * x, 2)

SeriesRound2(s) ==
    [index |-> s.index, values |-> [k \in 1..Len(s.values) |-> Round2(s.values[k])]]

\* zip(a, b): pairs up to the shorter of the two.
Zip(a, b) ==
    [k \in 1..(IF Len(a) < Len(b) THEN Len(a) ELSE Len(b)) |-> <<a[k], b[k]>>]

\* Series.reset_index(name='Count')
ResetIndex(s) ==
    [index |-> [k \in 1..Len(s.index) |-> k - 1],
     columns |-> <<"Country Name", "Count">>,
     data |-> [k \in 1..Len(s.index) |-> <<s.index[k], s.values[k]>>]]

\* Sum of the present values of a sequence (Series.sum skips NaN).
RECURSIVE Sum(_)
Sum(vs) ==
    IF vs = <<>> THEN 0
    ELSE (IF Head(vs) = NaN THEN 0 ELSE Head(vs)) + Sum(Tail(vs))

\* The labels of a sequence in order of first appearance.
RECURSIVE Unique(_)
Unique(labels) ==
    IF labels = <<>> THEN <<>>
    ELSE <<Head(labels)>> \o Unique(Without(Tail(labels), Head(labels)))

\* ax.patches of sns.barplot(data=df_filter, y="Country Name", x="Count"):
\* one bar per category in order of appearance, its width the mean of the
\* category's present counts, kept as the fraction num/den (den = 0: NaN).
BarWidths(df_filter) ==
    LET names  == [k \in 1..Len(df_filter.data) |-> df_filter.data[k][1]]
        counts == [k \in 1..Len(df_filter.data) |-> df_filter.data[k][2]]
        cats   == Unique(names)
        of(c)  == SelectSeq([k \in 1..Len(Positions(names, c)) |->
                                counts[Positions(names, c)[k]]],
                            LAMBDA x : x # NaN)
    IN  [k \in 1..Len(cats) |->
            [name |-> cats[k], num |-> Sum(of(cats[k])), den |-> Len(of(cats[k]))]]

Number(t) == [kind |-> "num", tenths |-> t]

Special(k) == [kind |-> k, tenths |-> 0]

\* ---- float64 arithmetic on positive values.  A float is [m, e]: m the 53
\* bits of its significand, most significant first, and its value m * 2^e.

\* The binary digits of a natural number, most significant first.
RECURSIVE Bits(_)
Bits(n) == IF n = 0 THEN <<>> ELSE Append(Bits(n \div 2), n % 2)

Front(bs) == SubSeq(bs, 1, Len(bs) - 1)

RECURSIVE BitsValue(_)
BitsValue(bs) ==
    IF bs = <<>> THEN 0 ELSE 2 * BitsValue(Front(bs)) + bs[Len(bs)]

Zeros(n) == [i \in 1..n |-> 0]

AnyOne(bs) == \E i \in 1..Len(bs) : bs[i] = 1

\* bs + 1 (one bit longer when bs is all ones).
Increment(bs) ==
    IF \A i \in 1..Len(bs) : bs[i] = 1 THEN <<1>> \o Zeros(Len(bs))
    ELSE LET j == CHOOSE i \in 1..Len(bs) :
                     bs[i] = 0 /\ \A h \in (i + 1)..Len(bs) : bs[h] = 1
         IN  [i \in 1..Len(bs) |-> IF i < j THEN bs[i] ELSE IF i = j THEN 1 ELSE 0]

\* The float64 nearest to bs * 2^e (plus a non-zero rest below the last bit
\* when sticky), ties to even: the rounding of every float64 operation.
RoundBits(bs, sticky, e) ==
    IF Len(bs) <= 53
    THEN [m |-> bs \o Zeros(53 - Len(bs)), e |-> e - (53 - Len(bs))]
    ELSE LET keep == SubSeq(bs, 1, 53)
             rest == sticky \/ AnyOne(SubSeq(bs, 55, Len(bs)))
             up   == bs[54] = 1 /\ (rest \/ keep[53] = 1)
             m    == IF up THEN Increment(keep) ELSE keep
             e2   == e + (Len(bs) - 53)
         IN  IF Len(m) > 53 THEN [m |-> SubSeq(m, 1, 53), e |-> e2 + 1]
             ELSE [m |-> m, e |-> e2]

\* Long division of the bits a (then zeros) by t, until the quotient q has
\* 54 significant bits; i counts the bits taken, rem is the remainder.
RECURSIVE DivLoop(_, _, _, _, _)
DivLoop(a, t, i, rem, q) ==
    IF Len(q) = 54 THEN [q |-> q, i |-> i, rem |-> rem]
    ELSE LET r == 2 * rem + (IF i + 1 <= Len(a) THEN a[i + 1] ELSE 0)
         IN  IF r >= t THEN DivLoop(a, t, i + 1, r - t, Append(q, 1))
             ELSE DivLoop(a, t, i + 1, r, IF q = <<>> THEN q ELSE Append(q, 0))

\* The float64 quotient of a * 2^e by the integer t > 0.
FloatDiv(a, e, t) ==
    LET d == DivLoop(a, t, 0, 0, <<>>)
    IN  RoundBits(d.q,
                  d.rem # 0 \/ AnyOne(SubSeq(a, d.i + 1, Len(a))),
                  e + Len(a) - d.i)

\* The exact product of the bits bs by the small integer c, from the last
\* bit up: out holds the product's low bits, carry what is still to add.
RECURSIVE MulLoop(_, _, _, _)
MulLoop(bs, c, carry, out) ==
    IF bs = <<>> THEN Bits(carry) \o out
    ELSE MulLoop(Front(bs), c, (bs[Len(bs)] * c + carry) \div 2,
                 <<(bs[Len(bs)] * c + carry) % 2>> \o out)

\* The float64 product of the float f by 100.
FloatTimes100(f) == RoundBits(MulLoop(f.m, 100, 0, <<>>), FALSE, f.e)

\* '{:.1f}'.format(f): the number of tenths printed, the exact binary value
\* of f being rounded to one decimal, ties to even.
FormatTenths(f) ==
    LET p  == MulLoop(f.m, 10, 0, <<>>)
        k  == 0 - f.e
        pp == IF k > Len(p) THEN Zeros(k - Len(p)) \o p ELSE p
    IN  IF k <= 0 THEN BitsValue(p \o Zeros(f.e))
        ELSE LET v  == BitsValue(SubSeq(pp, 1, Len(pp) - k))
                 fr == SubSeq(pp, Len(pp) - k + 1, Len(pp))
             IN  IF fr[1] = 1 /\ (AnyOne(Tail(fr)) \/ v % 2 = 1) THEN v + 1 ELSE v

\* The tenths printed for (width / total) * 100, width being the float64
\* mean num/8 / den and total the float64 total/8 (num, den, total > 0).
FloatPercentTenths(num, den, total) ==
    LET width == FloatDiv(Bits(num), 0 - 3, den)
        share == FloatDiv(width.m, width.e + 3, total)
    IN  FormatTenths(FloatTimes100(share))

\* The exact share 1000 * num / (den * total), in tenths of a percent, lies
\* halfway between two tenths (num, den, total > 0).
OnRoundingBoundary(num, den, total) ==
    /\ (2000 * num) % (den * total) = 0
    /\ ((2000 * num) \div (den * total)) % 2 = 1

\* The tenths printed for (width / total) * 100.  The three float64 roundings
\* move the value by less than 2^-51 of itself, and an exact share that is
\* not halfway between two tenths is at least 1 / (2 * den * total) tenths
\* away from the nearest halfway point: there the digit printed is that of
\* the exact share.  On a halfway point the float64 operations decide.
PercentTenths(num, den, total) ==
    IF OnRoundingBoundary(num, den, total)
    THEN FloatPercentTenths(num, den, total)
    ELSE RoundHalfEven(1000 * num, den * total)

\* Variant: the percentage cut to one decimal instead of rounded.
PercentageTruncated(num, den, total) ==
    IF den = 0 THEN Special("nan")
    ELSE IF total = 0
         THEN (IF num = 0 THEN Special("nan")
               ELSE IF num > 0 THEN Special("inf") ELSE Special("-inf"))
         ELSE Number(Sign(num) * Sign(total)
                     * ((1000 * Abs(num)) \div (den * Abs(total))))

\* '{:.1f}%'.format((width / total) * 100) with width = num/den: the number of
\* tenths of a percent printed, or nan / inf / -inf when the float64 division
\* is by zero or of NaN (numpy warns and does not raise).  float64 arithmetic
\* is symmetric in the sign, and a zero width prints as 0.0 (or -0.0).
Percentage(num, den, total) ==
    IF den = 0 THEN Special("nan")
    ELSE IF total = 0
         THEN (IF num = 0 THEN Special("nan")
               ELSE IF num > 0 THEN Special("inf") ELSE Special("-inf"))
         ELSE IF num = 0 THEN Number(0)
         ELSE Number(Sign(num) * Sign(total)
                     * PercentTenths(Abs(num), den, Abs(total)))

\* Variant: the shares taken of the number of rows instead of their sum.
BarAnnotationsOfRowCount(df_filter) ==
    LET bars == BarWidths(df_filter)
    IN  [k \in 1..Len(bars) |->
            [name |-> bars[k].name,
             pct |-> Percentage(bars[k].num, bars[k].den, Len(df_filter.data))]]

\* bar_plot, lines 204-212: total = df_filter["Count"].sum(), then one
\* annotation per bar.
BarAnnotations(df_filter) ==
    LET total == Sum([k \in 1..Len(df_filter.data) |-> df_filter.data[k][2]])
        bars  == BarWidths(df_filter)
    IN  [k \in 1..Len(bars) |->
            [name |-> bars[k].name,
             pct |-> Percentage(bars[k].num, bars[k].den, total)]]

\* ------------------------------------------------------------- the script

NoError == [at |-> "", what |-> ""]

NoTables == [d \in Range(Datasets) |-> [years |-> EmptyFrame, countries |-> EmptyFrame]]

NoSelection ==
    [pie |-> EmptySeries, line |-> EmptyFrame, bar |-> EmptyFrame, bar2 |-> EmptyFrame]

Init ==
    /\ pc = "load_P"
    /\ tables = NoTables
    /\ log = <<>>
    /\ selection = NoSelection
    /\ legend = <<>>
    /\ annotations = <<>>
    /\ image = FALSE
    /\ error = NoError
    /\ slice = EmptyFrame
    /\ percentages = <<>>
    /\ stage = "off"

\* Variant: the exception is swallowed and the script goes on to the image.
AbortSwallowed(step, what) ==
    /\ pc' = "text"
    /\ error' = [at |-> step, what |-> what]

\* An uncaught exception ends the run: nothing after the failing statement
\* is executed.
Abort(step, what) ==
    /\ pc' = "failed"
    /\ error' = [at |-> step, what |-> what]

Proceed(step, next) ==
    /\ pc' = next
    /\ log' = Append(log, step)
    /\ error' = error

\* X_Years_df, X_countries_df = read_world_bank_data("X.csv"), the file's
\* content being any file of the input family.
Load(d, step, next) ==
    /\ pc = step
    /\ \E v \in FileVariants :
          LET r == read_world_bank_data(RawFile(v))
          IN  IF r.error # ""
              THEN Abort(step, r.error) /\ UNCHANGED <<tables, log>>
              ELSE /\ tables' = [tables EXCEPT
                                    ![d] = [years |-> r.years, countries |-> r.countries]]
                   /\ Proceed(step, next)
    /\ UNCHANGED <<selection, legend, annotations, image, slice, percentages, stage>>

LoadP == Load("P", "load_P", "load_M")

LoadM == Load("M", "load_M", "load_C")

LoadC == Load("C", "load_C", "load_U")

LoadU == Load("U", "load_U", "pie")

\* Variant: the rounding is written back into the table.
create_pie_chart_in_place ==
    /\ pc = "pie"
    /\ LET loc == LocListColumn(tables["P"].countries, pie_countries, "2022")
       IN  IF loc.error # ""
           THEN Abort("pie", loc.error) /\ UNCHANGED <<log, selection, legend, tables>>
           ELSE LET df_filter == SeriesRound2(loc.value)
                    df == tables["P"].countries
                IN  /\ selection' = [selection EXCEPT !.pie = df_filter]
                    /\ legend' = Zip(pie_countries, df_filter.values)
                    /\ tables' = [tables EXCEPT !["P"].countries.data =
                                     [i \in 1..Len(df.index) |->
                                        [j \in 1..Len(df.columns) |->
                                            Round2(df.data[i][j])]]]
                    /\ Proceed("pie", "line")
    /\ UNCHANGED <<annotations, image, slice, percentages, stage>>

\* create_pie_chart(grid, P_countries_df)
create_pie_chart ==
    /\ pc = "pie"
    /\ LET loc == LocListColumn(tables["P"].countries, pie_countries, "2022")
       IN  IF loc.error # ""
           THEN Abort("pie", loc.error) /\ UNCHANGED <<log, selection, legend>>
           ELSE LET df_filter == SeriesRound2(loc.value)
                IN  /\ selection' = [selection EXCEPT !.pie = df_filter]
                    /\ legend' = Zip(pie_countries, df_filter.values)
                    /\ Proceed("pie", "line")
    /\ UNCHANGED <<tables, annotations, image, slice, percentages, stage>>

\* line_plot(grid, M_Years_df, ...)
line_plot ==
    /\ pc = "line"
    /\ LET df == tables["M"].years
       IN  IF MissingKeys(df.columns, line_country_list)
           THEN Abort("line", "KeyError") /\ UNCHANGED <<log, selection>>
           ELSE /\ selection' = [selection EXCEPT
                                    !.line = LocColumns(df, line_country_list)]
                /\ Proceed("line", "bar")
    /\ UNCHANGED <<tables, legend, annotations, image, slice, percentages, stage>>

\* bar_plot(grid, U_countries_df, ...)
bar_plot ==
    /\ pc = "bar"
    /\ LET loc == LocListColumn(tables["U"].countries, bar_country_list, "2022")
       IN  IF loc.error # ""
           THEN Abort("bar", loc.error) /\ UNCHANGED <<log, selection, annotations>>
           ELSE LET df_filter == ResetIndex(loc.value)
                IN  /\ selection' = [selection EXCEPT !.bar = df_filter]
                    /\ annotations' = BarAnnotations(df_filter)
                    /\ Proceed("bar", "bar2")
    /\ UNCHANGED <<tables, legend, image, slice, percentages, stage>>

\* bar_plot2(grid, C_countries_df, ...)
bar_plot2 ==
    /\ pc = "bar2"
    /\ LET df == tables["C"].countries
       IN  IF MissingKeys(df.index, bar2_country_list)
           THEN Abort("bar2", "KeyError") /\ UNCHANGED <<log, selection>>
           ELSE /\ selection' = [selection EXCEPT
                                    !.bar2 = LocRowsSlice(df, bar2_country_list,
                                                          "2000", "2020")]
                /\ Proceed("bar2", "text")
    /\ UNCHANGED <<tables, legend, annotations, image, slice, percentages, stage>>

\* display_text(): the text blocks, then plt.savefig("23010599.png", dpi=300)
display_text ==
    /\ pc = "text"
    /\ image' = TRUE
    /\ Proceed("text", "done")
    /\ UNCHANGED <<tables, selection, legend, annotations, slice, percentages, stage>>

Next ==
    \/ LoadP
    \/ LoadM
    \/ LoadC
    \/ LoadU
    \/ create_pie_chart
    \/ line_plot
    \/ bar_plot
    \/ bar_plot2
    \/ display_text

Spec == Init /\ [][Next]_vars

\* ------------------------------------- the percentage computation, alone

\* Names of the rows of a slice.
EntityNames == <<"A", "B", "C", "D", "E", "F", "G", "H">>

\* Values of a slice, in eighths: one negative value, zero, and 1 .. MaxVal.
SliceValues == (0 - 1)..MaxVal

\* {A: 10, B: 20, C: 70}, in eighths.
ExampleSlice == <<80, 160, 560>>

\* {A: 2.875, B: 7.125}, in eighths: both exact shares, 28.75 and 71.25, lie
\* halfway between two tenths.
TieSlice == <<23, 57>>

Slices ==
    UNION {[1..n -> SliceValues] : n \in 1..MaxLen} \cup {ExampleSlice, TieSlice}

\* The frame line 195 hands to the percentage computation for a slice.
SliceFrame(vals) ==
    ResetIndex([index |-> SubSeq(EntityNames, 1, Len(vals)), values |-> vals])

InitPct ==
    /\ pc = "bar"
    /\ tables = NoTables
    /\ log = <<>>
    /\ selection = NoSelection
    /\ legend = <<>>
    /\ annotations = <<>>
    /\ image = FALSE
    /\ error = NoError
    /\ slice \in {SliceFrame(vals) : vals \in Slices}
    /\ percentages = <<>>
    /\ stage = "slice"

\* Lines 204-212 of bar_plot applied to the slice.
percentage_of_total ==
    /\ stage = "slice"
    /\ percentages' = BarAnnotations(slice)
    /\ stage' = "annotated"
    /\ UNCHANGED <<pc, tables, log, selection, legend, annotations, image, error, slice>>

NextPct == percentage_of_total

SpecPct == InitPct /\ [][NextPct]_vars

\* ----------------------------------------------------------------- claims

LoadStep == [P |-> "load_P", M |-> "load_M", C |-> "load_C", U |-> "load_U"]

Loaded(d) == LoadStep[d] \in Range(log)

Charts == {"pie", "line", "bar", "bar2"}

ChartKeys ==
    [pie |-> pie_countries, line |-> line_country_list,
     bar |-> bar_country_list, bar2 |-> bar2_country_list]

ChartDataset == [pie |-> "P", line |-> "M", bar |-> "U", bar2 |-> "C"]

\* The labels of the axis a chart's entity list is looked up in.
ChartAxis(c) ==
    IF c = "line" THEN tables["M"].years.columns
    ELSE tables[ChartDataset[c]].countries.index

\* The entity labels of a chart's selection.
SelectedLabels(c) ==
    IF c = "pie" THEN selection.pie.index
    ELSE IF c = "line" THEN selection.line.columns
    ELSE IF c = "bar"
         THEN [k \in 1..Len(selection.bar.data) |-> selection.bar.data[k][1]]
         ELSE selection.bar2.index

KeyMissing(c) == \E k \in 1..Len(ChartKeys[c]) : ChartKeys[c][k] \notin Range(ChartAxis(c))

IsPrefix(a, b) == Len(a) <= Len(b) /\ SubSeq(b, 1, Len(a)) = a

\* C1: both views of every loaded table are exact transposes: same labels on
\* swapped axes, the value (absent or not) at [year, entity] of the year view
\* equal to the one at [entity, year] of the entity view, and transposing the
\* year view gives back the entity view.
ViewsAreTransposes ==
    \A d \in Range(Datasets) :
        Loaded(d) =>
            LET yv == tables[d].years
                ev == tables[d].countries
            IN  /\ yv.index = ev.columns
                /\ yv.columns = ev.index
                /\ Len(yv.data) = Len(ev.columns)
                /\ \A i \in 1..Len(ev.index), j \in 1..Len(ev.columns) :
                      yv.data[j][i] = ev.data[i][j]
                /\ Transpose(yv) = ev

\* A loaded table with an absent value in 1990 and a present one in 2022.
TransposedTableLoaded ==
    /\ Loaded("P")
    /\ tables["P"].countries.data[2][1] = NaN
    /\ tables["P"].years.data[1][2] = NaN
    /\ tables["P"].years.data[33][2] # NaN

\* C2: a completed single-year selection holds exactly one value per
\* requested key, in the caller's key order.
SingleYearSelectionOnePerKey ==
    /\ "pie" \in Range(log) => SelectedLabels("pie") = pie_countries
    /\ "bar" \in Range(log) => SelectedLabels("bar") = bar_country_list

\* C3: a selection whose entity list has a key the table lacks raises
\* KeyError and returns nothing: the chart gets no selection, the run does not
\* complete, and no completed selection lacks a requested key.
MissingKeyRaises ==
    \A c \in Charts :
        /\ (Loaded(ChartDataset[c]) /\ KeyMissing(c)) =>
              /\ selection[c] = NoSelection[c]
              /\ c \notin Range(log)
              /\ pc # "done"
              /\ ~image
        /\ c \in Range(log) => Range(ChartKeys[c]) \subseteq Range(SelectedLabels(c))
        /\ (pc = "failed" /\ error.at = c) => (error.what = "KeyError" /\ KeyMissing(c))

\* The bar chart's selection failed on a table without "South Africa".
BarSelectionFailed ==
    /\ pc = "failed"
    /\ error = [at |-> "bar", what |-> "KeyError"]
    /\ "South Africa" \notin Range(tables["U"].countries.index)
    /\ selection.bar = EmptyFrame

SliceCounts == [k \in 1..Len(slice.data) |-> slice.data[k][2]]

PercentageTenths == [k \in 1..Len(percentages) |-> percentages[k].pct.tenths]

\* C4: when the selected values sum to zero, every percentage is a defined 0%.
ZeroSumGivesZeroPercent ==
    (stage = "annotated" /\ Sum(SliceCounts) = 0) =>
        \A k \in 1..Len(percentages) : percentages[k].pct = Number(0)

NonNegativeNonZeroSlice ==
    /\ stage = "annotated"
    /\ \A k \in 1..Len(SliceCounts) : SliceCounts[k] >= 0
    /\ Sum(SliceCounts) # 0

\* C5 as stated: the percentages of a slice of non-negative values with a
\* non-zero sum add up to 100.0 within 0.1.
PercentagesSumWithinTenth ==
    NonNegativeNonZeroSlice => Abs(Sum(PercentageTenths) - 1000) <= 1

\* C5 as amended: the percentages of a slice of n non-negative values with a
\* non-zero sum are numbers and add up to 100.0 within 0.05 * n.
PercentagesSumWithinHalfTenthEach ==
    NonNegativeNonZeroSlice =>
        /\ \A k \in 1..Len(percentages) : percentages[k].pct.kind = "num"
        /\ 2 * Abs(Sum(PercentageTenths) - 1000) <= Len(percentages)

\* Six values whose percentages add up to 100.2.
PercentagesSumOffByTwoTenths ==
    /\ NonNegativeNonZeroSlice
    /\ Len(percentages) = 6
    /\ Sum(PercentageTenths) = 1002

\* C6: with a non-zero sum, there is one percentage per entity of the slice,
\* attached to that entity and equal to its own value / sum * 100 rounded to
\* one decimal place (within half a tenth of the exact share); the slice
\* {A: 10, B: 20, C: 70} gives 10.0, 20.0 and 70.0.
PercentageIsOwnShare ==
    (stage = "annotated" /\ Sum(SliceCounts) # 0) =>
        /\ Len(percentages) = Len(slice.data)
        /\ \A k \in 1..Len(percentages) :
              /\ percentages[k].name = slice.data[k][1]
              /\ percentages[k].pct.kind = "num"
              /\ 2 * Abs(percentages[k].pct.tenths * Sum(SliceCounts)
                         - 1000 * SliceCounts[k]) <= Abs(Sum(SliceCounts))
        /\ SliceCounts = ExampleSlice => PercentageTenths = <<100, 200, 700>>

\* The example slice, annotated.
ExampleSliceAnnotated ==
    /\ stage = "annotated"
    /\ SliceCounts = ExampleSlice
    /\ [k \in 1..3 |-> percentages[k].name] = <<"A", "B", "C">>
    /\ PercentageTenths = <<100, 200, 700>>

\* The labels "1990" .. "2022".
ExpectedYears == [i \in 1..33 |-> ToString(1989 + i)]

\* C7: the year keys of both views of every loaded table are exactly
\* "1990" .. "2022", in that order.
YearKeysAreTheRange ==
    \A d \in Range(Datasets) :
        Loaded(d) =>
            /\ tables[d].countries.columns = ExpectedYears
            /\ tables[d].years.index = ExpectedYears

\* A table loaded from a file with other columns, whose year 1991 has absent
\* values.
YearWithAbsentValuesKept ==
    /\ Loaded("U")
    /\ tables["U"].countries.columns[2] = "1991"
    /\ tables["U"].countries.data[2][2] = NaN

\* C8: no loaded table has two rows with the same entity name.
EntityNamesUnique ==
    \A d \in Range(Datasets) :
        Loaded(d) =>
            \A i, j \in 1..Len(tables[d].countries.index) :
                tables[d].countries.index[i] = tables[d].countries.index[j] => i = j

FullRun == <<"load_P", "load_M", "load_C", "load_U", "pie", "line", "bar", "bar2">>

\* C9: the steps complete in the script's order; the image is written only
\* after the four loads and the four selections completed, in that order;
\* a failed run has written no image.
ImageOnlyAfterCompleteRun ==
    /\ IsPrefix(log, FullRun \o <<"text">>)
    /\ image =>
          /\ IsPrefix(FullRun, log)
          /\ \A d \in Range(Datasets) : tables[d] # NoTables[d]
          /\ \A c \in Charts : selection[c] # NoSelection[c]
    /\ pc = "failed" => (~image /\ error.at \notin Range(log))

\* The complete run, image written.
ImageWritten ==
    /\ pc = "done"
    /\ image
    /\ log = FullRun \o <<"text">>

\* C10: a loaded table never changes: every step leaves both views of every
\* table already loaded as they were.
TablesImmutableOnceLoaded ==
    [][\A d \in Range(Datasets) : Loaded(d) => tables'[d] = tables[d]]_vars

\* All four selections done, the pie chart's values rounded (3/8 to 0.38).
SelectionsDoneWithRounding ==
    /\ IsPrefix(FullRun, log)
    /\ \E k \in 1..Len(selection.pie.values) : selection.pie.values[k] = 38
    /\ selection.bar.columns = <<"Country Name", "Count">>

====
